---- MODULE Spec2Model ----
(***************************************************************************)
(* Model of the chat orchestration engine: the /chat handler of server.js, *)
(* LangChainChatAgent (processMessage, _streamGenerate, _getLLM,           *)
(* shouldSearchWeb) and the two search tools with their caches.            *)
(*                                                                         *)
(* JavaScript strings that the code inspects (message, modelName, cache    *)
(* keys) are sequences of one-character strings, so toLowerCase, includes  *)
(* and concatenation are computed, not assumed.  One action is one run of  *)
(* the event loop: the code between two I/O suspension points.             *)
(***************************************************************************)
EXTENDS Integers, Sequences, FiniteSets, TLC

\* ------------------------------------------------------------------ bounds
NumReq == 3          \* connections that may carry a request
MaxTicks == 2        \* clock advances explored
MaxChunks == 2       \* deltas the LLM streams of one request deliver at most

Requests == 1..NumReq

\* ------------------------------------------------------- JavaScript values
Undefined == [t |-> "undefined", s |-> <<>>]
Str(s) == [t |-> "string", s |-> s]
Num(s) == [t |-> "number", s |-> s]

IsString(v) == v.t = "string"

\* variant: only an absent field counts as missing
TruthyDefined(v) == v.t # "undefined"

\* !v is false exactly for these values
Truthy(v) ==
  \/ v.t = "string" /\ v.s # <<>>
  \/ v.t = "number" /\ v.s # <<"0">>

UpperChars == <<"A","B","C","D","E","F","G","H","I","J","K","L","M",
                "N","O","P","Q","R","S","T","U","V","W","X","Y","Z">>
LowerChars == <<"a","b","c","d","e","f","g","h","i","j","k","l","m",
                "n","o","p","q","r","s","t","u","v","w","x","y","z">>

toLowerCaseChar(c) ==
  IF \E i \in 1..26 : UpperChars[i] = c
  THEN LowerChars[CHOOSE i \in 1..26 : UpperChars[i] = c]
  ELSE c

toLowerCase(s) == [i \in 1..Len(s) |-> toLowerCaseChar(s[i])]

includes(s, sub) ==
  \E i \in 0..(Len(s) - Len(sub)) : SubSeq(s, i + 1, i + Len(sub)) = sub

\* ------------------------------------------------------------- configuration
Credentials == {"openai", "google", "anthropic", "perplexity"}
LLMProviders == {"openai", "google", "anthropic"}

ProviderChars(p) ==
  CASE p = "openai" -> <<"o","p","e","n","a","i">>
    [] p = "google" -> <<"g","o","o","g","l","e">>
    [] p = "anthropic" -> <<"a","n","t","h","r","o","p","i","c">>
    [] OTHER -> <<"m","i","s","t","r","a","l">>

GPT4Turbo == <<"g","p","t","-","4","-","t","u","r","b","o">>
GPT35Turbo == <<"g","p","t","-","3",".","5","-","t","u","r","b","o">>
Gemini25Pro == <<"g","e","m","i","n","i","-","2",".","5","-","p","r","o">>
Claude3Sonnet == <<"c","l","a","u","d","e","-","3","-","s","o","n","n","e","t","-",
                   "2","0","2","4","0","2","2","9">>
Claude3Haiku == <<"c","l","a","u","d","e","-","3","-","h","a","i","k","u","-",
                  "2","0","2","4","0","3","0","7">>

Client(p, tier, model) == [provider |-> p, tier |-> tier, model |-> model]

\* this.models after _initializeModels: the clients built for the credentials
\* present, as a set; a client's registry key is provider + "_" + tier
initializeModels(keys) ==
  (IF "openai" \in keys
     THEN {Client("openai", "capable", GPT4Turbo), Client("openai", "fast", GPT35Turbo)}
     ELSE {})
  \cup
  (IF "google" \in keys
     THEN {Client("google", "capable", Gemini25Pro), Client("google", "fast", Gemini25Pro)}
     ELSE {})
  \cup
  (IF "anthropic" \in keys
     THEN {Client("anthropic", "capable", Claude3Sonnet),
           Client("anthropic", "fast", Claude3Haiku)}
     ELSE {})

\* this.tools after _initializeTools
initializeTools(keys) ==
  (IF "perplexity" \in keys THEN {"perplexity_web_search"} ELSE {})
  \cup
  (IF "google" \in keys THEN {"google_search_grounding"} ELSE {})

HasModel(ms, p, tier) == \E c \in ms : c.provider = p /\ c.tier = tier
ModelOf(ms, p, tier) == CHOOSE c \in ms : c.provider = p /\ c.tier = tier

NoClient == Client("", "none", <<>>)

\* variant: the tier test made before the provider test
getLLMFastFirst(ms, modelProvider, modelName) ==
  IF ~IsString(modelName)
  THEN [kind |-> "throw", client |-> NoClient]
  ELSE IF ~HasModel(ms, modelProvider, "capable") /\ ~HasModel(ms, modelProvider, "fast")
  THEN [kind |-> "null", client |-> NoClient]
  ELSE [kind |-> "client", client |-> ModelOf(ms, modelProvider, "capable")]

\* variant: explicit model names are ignored
getLLMNoOverride(ms, modelProvider, modelName) ==
  IF ~HasModel(ms, modelProvider, "capable") /\ ~HasModel(ms, modelProvider, "fast")
  THEN [kind |-> "null", client |-> NoClient]
  ELSE IF ~IsString(modelName)
  THEN [kind |-> "throw", client |-> NoClient]
  ELSE IF includes(modelName.s, <<"f","a","s","t">>)
  THEN [kind |-> "client", client |-> ModelOf(ms, modelProvider, "fast")]
  ELSE [kind |-> "client", client |-> ModelOf(ms, modelProvider, "capable")]

\* _getLLM: kind is "null" (provider not initialized), "throw" (TypeError of
\* modelName.includes on a non-string) or "client"
getLLM(ms, modelProvider, modelName) ==
  IF ~HasModel(ms, modelProvider, "capable") /\ ~HasModel(ms, modelProvider, "fast")
  THEN [kind |-> "null", client |-> NoClient]
  ELSE IF ~IsString(modelName)
  THEN [kind |-> "throw", client |-> NoClient]
  ELSE IF includes(modelName.s, <<"f","a","s","t">>)
  THEN [kind |-> "client", client |-> ModelOf(ms, modelProvider, "fast")]
  ELSE IF modelProvider = "openai" /\ modelName.s # GPT4Turbo /\ modelName.s # GPT35Turbo
  THEN [kind |-> "client", client |-> Client("openai", "dedicated", modelName.s)]
  ELSE IF modelProvider = "google" /\ modelName.s # Gemini25Pro /\ modelName.s # Gemini25Pro
  THEN [kind |-> "client", client |-> Client("google", "dedicated", modelName.s)]
  ELSE IF modelProvider = "anthropic" /\ modelName.s # Claude3Sonnet
                                      /\ modelName.s # Claude3Haiku
  THEN [kind |-> "client", client |-> Client("anthropic", "dedicated", modelName.s)]
  ELSE [kind |-> "client", client |-> ModelOf(ms, modelProvider, "capable")]

\* --------------------------------------------------- search decision engine
ExplicitCommands ==
  { <<"s","e","a","r","c","h"," ","f","o","r">>,
    <<"l","o","o","k"," ","u","p">>,
    <<"f","i","n","d"," ","i","n","f","o","r","m","a","t","i","o","n"," ","o","n">>,
    <<"w","e","b"," ","s","e","a","r","c","h"," ","f","o","r">> }

timeSensitiveKeywords ==
  { <<"l","a","t","e","s","t">>, <<"c","u","r","r","e","n","t">>,
    <<"r","e","c","e","n","t">>, <<"n","e","w","s">>, <<"t","o","d","a","y">>,
    <<"y","e","s","t","e","r","d","a","y">>, <<"n","o","w">>,
    <<"b","r","e","a","k","i","n","g">>, <<"u","p","d","a","t","e">>,
    <<"2","0","2","4">>, <<"2","0","2","5">> }

DynamicFactPhrases ==
  { <<"w","h","o"," ","i","s"," ","t","h","e"," ","c","u","r","r","e","n","t">>,
    <<"w","h","a","t"," ","i","s"," ","t","h","e"," ","s","t","o","c","k"," ",
      "p","r","i","c","e">>,
    <<"w","e","a","t","h","e","r"," ","i","n">>,
    <<"e","l","e","c","t","i","o","n"," ","r","e","s","u","l","t","s">>,
    <<"c","u","r","r","e","n","t"," ","e","v","e","n","t","s">>,
    <<"w","h","a","t","'","s"," ","h","a","p","p","e","n","i","n","g">> }

\* shouldSearchWeb on a string (a non-string has no toLowerCase: TypeError)
shouldSearchWeb(userInput) ==
  LET lowerInput == toLowerCase(userInput)
  IN  \/ \E k \in ExplicitCommands : includes(lowerInput, k)
      \/ \E k \in timeSensitiveKeywords : includes(lowerInput, k)
      \/ \E k \in DynamicFactPhrases : includes(lowerInput, k)


\* ------------------------------------------------------------------ state
VARIABLES
  apiKeys,      \* credentials present in the environment (fixed at startup)
  now,          \* Date.now(), in milliseconds
  ticks,        \* clock advances still to come
  searchCache,  \* LangChainChatAgent.searchCache
  pplxCache,    \* PerplexitySearchTool.cache
  groundCache,  \* GoogleGroundingTool.cache
  inbox,        \* the request body each connection carries
  pc,           \* where each request's handler is suspended
  req,          \* message, modelProvider, forceSearch after defaulting
  llm,          \* the client _getLLM returned
  loc,          \* processMessage / _streamGenerate locals
  frames,       \* the res.write calls of each response, in order
  sink,         \* res.writableEnded and whether the peer closed the socket
  ev,           \* history: calls each request made, frames written after a close
  left,         \* deltas the LLM streams of each request may still deliver
  at            \* history: Date.now() when each request wrote searchCache, else -1

vars == <<apiKeys, now, ticks, searchCache, pplxCache, groundCache, inbox, pc,
          req, llm, loc, frames, sink, ev, left, at>>

models == initializeModels(apiKeys)
tools == initializeTools(apiKeys)

\* variant: the TTL taken in seconds
searchCacheTTLSeconds == 5 * 60

searchCacheTTL == 5 * 60 * 1000
pplxCacheTTL == 5 * 60 * 1000
groundCacheTTL == 5 * 60 * 1000

\* variant: an entry exactly one TTL old still counts as fresh
CacheHitInclusive(cache, key, t, ttl) ==
  key \in DOMAIN cache /\ t - cache[key].timestamp <= ttl

\* cachedResult && (Date.now() - cachedResult.timestamp < ttl)
CacheHit(cache, key, t, ttl) ==
  key \in DOMAIN cache /\ t - cache[key].timestamp < ttl

Put(cache, key, entry) == (key :> entry) @@ cache

EmptyCache == [k \in {} |-> 0]

\* ----------------------------------------------------------------- frames
ErrorFrame(d) == [type |-> "error", data |-> d]
EndFrame == [type |-> "end"]
ChunkFrame(d) == [type |-> "chunk", data |-> d]

MetadataFrame(l) ==
  [type |-> "metadata",
   data |-> [usedSearch |-> l.needsSearch, searchTool |-> l.searchToolUsed,
             searchSources |-> l.searchSources,
             isSearchSuccessful |-> l.isSearchSuccessful]]

\* --------------------------------------------------------- prompt builder
\* variant: the template is filled without the search content
RagSystemNoContext(context) == [role |-> "system", template |-> "RAG", context |-> ""]

RagSystem(context) == [role |-> "system", template |-> "RAG", context |-> context]
DirectSystem == [role |-> "system", template |-> "direct", context |-> ""]
Human(content) == [role |-> "human", content |-> content]

\* variant: the augmented prompt is used whenever there is search content
BuildPromptWheneverContent(l, userMessage) ==
  IF l.searchContent # ""
  THEN <<RagSystem(l.searchContent), Human(userMessage)>>
  ELSE <<DirectSystem, Human(userMessage)>>

BuildPrompt(l, userMessage) ==
  IF l.needsSearch /\ l.isSearchSuccessful
  THEN <<RagSystem(l.searchContent), Human(userMessage)>>
  ELSE <<DirectSystem, Human(userMessage)>>

\* variant: the catch block without the finally block
processMessageCatchNoFinally(err) == <<ErrorFrame(err)>>

\* lines 313-318: the catch block yields error, the finally block yields end
processMessageCatch(err) == <<ErrorFrame(err), EndFrame>>

\* ------------------------------------------------------- request locals
\* variant: the search is presumed successful until shown otherwise
InitLocOptimistic ==
  [needsSearch |-> FALSE, searchToolUsed |-> "none", searchContent |-> "",
   searchSources |-> <<>>, isSearchSuccessful |-> TRUE,
   cacheKey |-> <<>>, messagesForLLM |-> <<>>, fallback |-> NoClient,
   accumulatedContent |-> "", obtainedAt |-> -1]

InitLoc ==
  [needsSearch |-> FALSE, searchToolUsed |-> "none", searchContent |-> "",
   searchSources |-> <<>>, isSearchSuccessful |-> FALSE,
   cacheKey |-> <<>>, messagesForLLM |-> <<>>, fallback |-> NoClient,
   accumulatedContent |-> "", obtainedAt |-> -1]

\* what one run of the event loop produced for a request: the frames the
\* generator yielded (ys), how the run ended (suspended at pc "next", the
\* generator returned, or an exception left the generator), and the new
\* locals and dispatcher cache
Out(ys, e, outcome, err, next, l, client, sc, pcache, gcache) ==
  [ys |-> ys, ev |-> e, outcome |-> outcome, err |-> err, next |-> next,
   loc |-> l, llm |-> client, searchCache |-> sc, pplxCache |-> pcache,
   groundCache |-> gcache]

\* variant: metadata reported only for requests that searched
AfterSearchSilent(e, l, userMessage, client, sc, pcache, gcache) ==
  Out(IF l.needsSearch THEN <<MetadataFrame(l)>> ELSE <<>>, e \o <<"llm.stream">>,
      "suspend", "", "open",
      [l EXCEPT !.messagesForLLM = BuildPrompt(l, userMessage)],
      client, sc, pcache, gcache)

\* processMessage from the metadata yield to the llm.stream call
AfterSearch(e, l, userMessage, client, sc, pcache, gcache) ==
  Out(<<MetadataFrame(l)>>, e \o <<"llm.stream">>, "suspend", "", "open",
      [l EXCEPT !.messagesForLLM = BuildPrompt(l, userMessage)],
      client, sc, pcache, gcache)

\* ------------------------------------------------------- search adapters
\* variant: the adapter's key keeps the query's letter case
PplxKeyExact(query) == query

PplxKey(query) == toLowerCase(query)
GroundKey(query) == <<"g","r","o","u","n","d","e","d","_">> \o toLowerCase(query)

\* PerplexitySearchAgent._parseSearchResult: citations is the list of the
\* citations' urls, "" where a citation has none
parseSearchResult(data) ==
  [content |-> data.content,
   sources |-> SelectSeq(data.citations, LAMBDA u : u # ""),
   citations |-> data.citations]

\* GoogleGroundingTool._parseCitations followed by .map(c => c.url).filter(Boolean)
NoCitationMetadata == [defined |-> FALSE, citationSources |-> <<>>]
parseCitationUrls(citationMetadata) ==
  IF ~citationMetadata.defined
  THEN <<>>
  ELSE SelectSeq(citationMetadata.citationSources, LAMBDA u : u # "")

\* variant: the dispatcher stores whatever the dispatch produced
StoreResultAlways(sc, l, t) ==
  Put(sc, l.cacheKey,
      [data |-> [content |-> l.searchContent, sources |-> l.searchSources,
                 toolUsed |-> l.searchToolUsed],
       timestamp |-> t, obtainedAt |-> l.obtainedAt])

\* the dispatcher's write of a successful result; obtainedAt is history: the
\* time at which the backend delivered the content being stored
StoreResult(sc, l, t) ==
  IF l.isSearchSuccessful
  THEN Put(sc, l.cacheKey,
           [data |-> [content |-> l.searchContent, sources |-> l.searchSources,
                      toolUsed |-> l.searchToolUsed],
            timestamp |-> t, obtainedAt |-> l.obtainedAt])
  ELSE sc


\* ---------------------------------------------------------- request bodies
MsgHi == Str(<<"h","i">>)
MsgNews == Str(<<"n","e","w","s">>)
MsgNewsCap == Str(<<"N","e","w","s">>)
MsgEmpty == Str(<<>>)
MsgNumber == Num(<<"5">>)

Messages == {Undefined, MsgEmpty, MsgNumber, MsgHi, MsgNews, MsgNewsCap}
ProviderInputs == {"<absent>", "openai", "google", "anthropic", "mistral"}
ModelNameInputs ==
  {Undefined, Str(Gemini25Pro), Str(Claude3Haiku),
   Str(<<"o","p","e","n","a","i","_","f","a","s","t">>), Num(<<"5">>)}

Bodies ==
  [message : Messages, modelProvider : ProviderInputs,
   modelName : ModelNameInputs, forceSearch : BOOLEAN]

NoBody ==
  [message |-> Undefined, modelProvider |-> "<absent>", modelName |-> Undefined,
   forceSearch |-> FALSE]

NoReq == [message |-> Undefined, modelProvider |-> "", forceSearch |-> FALSE]

\* ---------------------------------------------- processMessage, first run
\* variant: the web-search tool is preferred whenever it is configured
selectToolWebFirst(modelProvider, ts) ==
  IF "perplexity_web_search" \in ts
  THEN "perplexity_web_search"
  ELSE IF modelProvider = "google" /\ "google_search_grounding" \in ts
  THEN "google_search_grounding"
  ELSE "none"

\* the branch conditions of lines 240, 257 and 273
selectTool(modelProvider, ts) ==
  IF modelProvider = "google" /\ "google_search_grounding" \in ts
  THEN "google_search_grounding"
  ELSE IF "perplexity_web_search" \in ts
  THEN "perplexity_web_search"
  ELSE "none"

\* the dispatcher on a cache miss (lines 238-285), up to the first suspension
DispatchMiss(e, l, message, modelProvider, client, t) ==
  IF selectTool(modelProvider, tools) = "google_search_grounding"
  THEN LET key == GroundKey(message.s)
           e1 == e \o <<"call:google_search_grounding">>
       IN  IF CacheHit(groundCache, key, t, groundCacheTTL)
           THEN LET l1 == [l EXCEPT
                             !.searchContent = groundCache[key].data,
                             !.searchSources = parseCitationUrls(groundCache[key].citations),
                             !.searchToolUsed = "google_search_grounding",
                             !.isSearchSuccessful = TRUE,
                             !.obtainedAt = groundCache[key].timestamp]
                IN  AfterSearch(e1 \o <<"searchCache.write">>, l1, message, client,
                                StoreResult(searchCache, l1, t), pplxCache, groundCache)
           ELSE Out(<<>>, e1 \o <<"upstream:google_search_grounding">>, "suspend", "",
                    "await_grounding", l,
                    client, searchCache, pplxCache, groundCache)
  ELSE IF selectTool(modelProvider, tools) = "perplexity_web_search"
  THEN LET key == PplxKey(message.s)
           e1 == e \o <<"call:perplexity_web_search">>
       IN  IF CacheHit(pplxCache, key, t, pplxCacheTTL)
           THEN LET l1 == [l EXCEPT
                             !.searchContent = pplxCache[key].data.content,
                             !.searchSources = pplxCache[key].data.sources,
                             !.searchToolUsed = "perplexity_web_search",
                             !.isSearchSuccessful = TRUE,
                             !.obtainedAt = pplxCache[key].timestamp]
                IN  AfterSearch(e1 \o <<"searchCache.write">>, l1, message, client,
                                StoreResult(searchCache, l1, t), pplxCache, groundCache)
           ELSE Out(<<>>, e1 \o <<"upstream:perplexity_web_search">>, "suspend", "",
                    "await_perplexity", l,
                    client, searchCache, pplxCache, groundCache)
  ELSE AfterSearch(e, [l EXCEPT !.searchContent = "(No search tool available for your request.)",
                                !.needsSearch = FALSE],
                   message, client, searchCache, pplxCache, groundCache)

\* variant: the key keeps the query's letter case
CacheKeyExact(userMessage, modelProvider) ==
  userMessage.s \o <<"-">> \o ProviderChars(modelProvider)

\* line 228: `${userMessage.toLowerCase()}-${modelProvider}`
CacheKey(userMessage, modelProvider) ==
  toLowerCase(userMessage.s) \o <<"-">> \o ProviderChars(modelProvider)

\* lines 226-287: the dispatcher-cache lookup
Dispatch(e, message, modelProvider, client, t) ==
  LET cacheKey == CacheKey(message, modelProvider)
      l == [InitLoc EXCEPT !.needsSearch = TRUE, !.cacheKey = cacheKey]
      e1 == e \o <<"searchCache.read">> \o
            (IF cacheKey \in DOMAIN searchCache THEN <<"searchCache.stale">> ELSE <<>>)
  IN  IF CacheHit(searchCache, cacheKey, t, searchCacheTTL)
      THEN AfterSearch(e \o <<"searchCache.read", "searchCache.hit">>,
                       [l EXCEPT !.searchContent = searchCache[cacheKey].data.content,
                                 !.searchSources = searchCache[cacheKey].data.sources,
                                 !.searchToolUsed = searchCache[cacheKey].data.toolUsed,
                                 !.isSearchSuccessful = TRUE,
                                 !.obtainedAt = searchCache[cacheKey].obtainedAt],
                       message, client, searchCache, pplxCache, groundCache)
      ELSE DispatchMiss(e1, l, message, modelProvider, client, t)

\* variant: the search decision is left to shouldSearchWeb alone
needsSearchByRulesOnly(forceSearch, userMessage) == shouldSearchWeb(userMessage.s)

\* line 220, for a string message
needsSearch(forceSearch, userMessage) ==
  forceSearch \/ shouldSearchWeb(userMessage.s)

\* processMessage from its first line to its first suspension
processMessageStart(message, modelProvider, modelName, forceSearch, t) ==
  LET r == getLLM(models, modelProvider, modelName)
      e == <<"getLLM">>
  IN  IF r.kind = "throw"
      THEN Out(<<>>, e, "throw", "modelName.includes is not a function", "done",
               InitLoc, NoClient, searchCache, pplxCache, groundCache)
      ELSE IF r.kind = "null"
      THEN Out(<<ErrorFrame("Error: Model provider not initialized or model not found. Check API keys."),
                 EndFrame>>, e, "return", "", "done",
               InitLoc, NoClient, searchCache, pplxCache, groundCache)
      ELSE IF ~forceSearch /\ ~IsString(message)
      THEN Out(<<>>, e \o <<"shouldSearchWeb">>, "throw",
               "userInput.toLowerCase is not a function", "done",
               InitLoc, r.client, searchCache, pplxCache, groundCache)
      ELSE IF forceSearch /\ ~IsString(message)
      THEN \* line 228 throws inside the try: catch yields error, finally yields end
           Out(processMessageCatch("userMessage.toLowerCase is not a function"),
               e, "return", "", "done",
               [InitLoc EXCEPT !.needsSearch = TRUE], r.client,
               searchCache, pplxCache, groundCache)
      ELSE LET e1 == IF forceSearch THEN e ELSE e \o <<"shouldSearchWeb">>
           IN  IF needsSearch(forceSearch, message)
               THEN Dispatch(e1, message, modelProvider, r.client, t)
               ELSE AfterSearch(e1, InitLoc, message, r.client,
                                searchCache, pplxCache, groundCache)

\* ------------------------------------------------------ the /chat handler
\* lines 51-57: the handler's catch block, for an exception that left the generator
ServerCatchNoEnd(ended, err) ==
  IF ~ended THEN <<ErrorFrame(err)>> ELSE <<>>

ServerCatch(ended, err) ==
  IF ~ended THEN <<ErrorFrame(err), EndFrame>> ELSE <<>>

Awaiting == {"await_perplexity", "await_grounding"}

\* The consumer loop of server.js on the frames one run yielded, and what
\* follows when the generator returned or threw.  res.writableEnded is set by
\* res.end() only; a socket closed by the peer leaves it false.
Serve(r, o) ==
  LET ended == sink[r].ended
      broke == ended /\ o.ys # <<>>
      written == IF ended THEN <<>> ELSE o.ys
      caught == IF o.outcome = "throw" THEN ServerCatch(ended, o.err) ELSE <<>>
      all == written \o caught
      over == broke \/ o.outcome # "suspend"
  IN  /\ frames' = [frames EXCEPT ![r] = @ \o all]
      /\ sink' = [sink EXCEPT ![r].ended = @ \/ over]
      /\ ev' = [ev EXCEPT ![r] =
                  @ \o o.ev \o
                  (IF sink[r].closed
                   THEN [i \in 1..Len(all) |-> "late:" \o all[i].type]
                   ELSE <<>>)]
      /\ pc' = [pc EXCEPT ![r] = IF over THEN "done" ELSE o.next]
      /\ at' = [at EXCEPT ![r] =
                  IF \E i \in 1..Len(o.ev) : o.ev[i] = "searchCache.write"
                  THEN now ELSE @]
      /\ loc' = [loc EXCEPT ![r] = o.loc]
      /\ llm' = [llm EXCEPT ![r] = o.llm]
      /\ searchCache' = o.searchCache
      /\ pplxCache' = o.pplxCache
      /\ groundCache' = o.groundCache

DefaultProvider(p) == IF p = "<absent>" THEN "openai" ELSE p
DefaultModelName(m) == IF m = Undefined THEN Str(GPT4Turbo) ELSE m

\* app.post('/chat') up to the first suspension of processMessage
Receive(r) ==
  /\ pc[r] = "pending"
  /\ LET message == inbox[r].message
         modelProvider == DefaultProvider(inbox[r].modelProvider)
         modelName == DefaultModelName(inbox[r].modelName)
         forceSearch == inbox[r].forceSearch
     IN  /\ req' = [req EXCEPT ![r] = [message |-> message,
                                        modelProvider |-> modelProvider,
                                        forceSearch |-> forceSearch]]
         /\ IF ~Truthy(message)
            THEN /\ frames' = [frames EXCEPT ![r] =
                                 <<ErrorFrame("Message is required."), EndFrame>>]
                 /\ sink' = [sink EXCEPT ![r].ended = TRUE]
                 /\ pc' = [pc EXCEPT ![r] = "done"]
                 /\ UNCHANGED <<llm, loc, ev, at, searchCache, pplxCache, groundCache>>
            ELSE Serve(r, processMessageStart(message, modelProvider, modelName,
                                              forceSearch, now))
  /\ inbox' = [inbox EXCEPT ![r] = NoBody]
  /\ UNCHANGED <<apiKeys, now, ticks, left>>


\* --------------------------------------------------- upstream search backends
PplxResponses ==
  { [content |-> "P1", citations |-> <<"u1", "">>],
    [content |-> "P2", citations |-> <<>>] }

GroundResponses ==
  { [content |-> "G1",
     citationMetadata |-> [defined |-> TRUE, citationSources |-> <<"g1", "">>]],
    [content |-> "G2", citationMetadata |-> NoCitationMetadata] }

\* PerplexitySearchTool._call after searchWeb resolved, then lines 261-311
PerplexityReturned(l, message, client, resp, t) ==
  LET key == PplxKey(message.s)
      result == parseSearchResult(resp)
      pcache == Put(pplxCache, key, [data |-> result, timestamp |-> t])
      fullPerplexityResult == pcache[key].data
      l1 == [l EXCEPT !.searchContent = result.content,
                      !.searchSources = fullPerplexityResult.sources,
                      !.searchToolUsed = "perplexity_web_search",
                      !.isSearchSuccessful = TRUE,
                      !.obtainedAt = t]
  IN  AfterSearch(<<"searchCache.write">>, l1, message, client, StoreResult(searchCache, l1, t),
                  pcache, groundCache)

\* GoogleGroundingTool._call after generateContent resolved, then lines 244-311
GroundingReturned(l, message, client, resp, t) ==
  LET key == GroundKey(message.s)
      gcache == Put(groundCache, key,
                    [data |-> resp.content, timestamp |-> t,
                     citations |-> resp.citationMetadata])
      l1 == [l EXCEPT !.searchContent = resp.content,
                      !.searchSources = parseCitationUrls(gcache[key].citations),
                      !.searchToolUsed = "google_search_grounding",
                      !.isSearchSuccessful = TRUE,
                      !.obtainedAt = t]
  IN  AfterSearch(<<"searchCache.write">>, l1, message, client, StoreResult(searchCache, l1, t),
                  pplxCache, gcache)

\* variant: the failure note is set but the tool keeps its plain name
AdapterFailedKeepsName(l, message, client, tool, t) ==
  LET l1 == [l EXCEPT
               !.searchContent = IF tool = "google_search_grounding"
                                 THEN "Error: Google Grounding failed"
                                 ELSE "Error: Perplexity search failed",
               !.searchToolUsed = tool]
  IN  AfterSearch(<<"adapter.failed">>, l1, message, client,
                  StoreResult(searchCache, l1, t), pplxCache, groundCache)

\* variant: the rejection is never delivered, the await never settles
AdapterFailedHangs(l, message, client, tool, t) ==
  Out(<<>>, <<"adapter.failed">>, "suspend", "", "hung", l, client,
      searchCache, pplxCache, groundCache)

\* variant: a failed tool call is attempted again
AdapterFailedRetries(l, message, client, tool, t) ==
  Out(<<>>, <<"adapter.failed", "call:" \o tool, "upstream:" \o tool>>,
      "suspend", "",
      IF tool = "google_search_grounding" THEN "await_grounding" ELSE "await_perplexity",
      l, client, searchCache, pplxCache, groundCache)

\* variant: no inner try/catch, the tool's error reaches the outer catch
AdapterFailedThrows(l, message, client, tool, t) ==
  Out(<<ErrorFrame("Failed to perform search"), EndFrame>>, <<"adapter.failed">>,
      "return", "", "done", l, client, searchCache, pplxCache, groundCache)

\* the catch (toolError) blocks of lines 251-255 and 268-272
AdapterFailed(l, message, client, tool, t) ==
  LET l1 == [l EXCEPT
               !.searchContent = IF tool = "google_search_grounding"
                                 THEN "Error: Google Grounding failed"
                                 ELSE "Error: Perplexity search failed",
               !.searchToolUsed = IF tool = "google_search_grounding"
                                  THEN "google_search_grounding_failed"
                                  ELSE "perplexity_web_search_failed"]
  IN  AfterSearch(<<"adapter.failed">>, l1, message, client,
                  StoreResult(searchCache, l1, t), pplxCache, groundCache)

AdapterReturn(r) ==
  /\ pc[r] \in {"await_perplexity", "await_grounding"}
  /\ IF pc[r] = "await_perplexity"
     THEN \E resp \in PplxResponses :
            Serve(r, PerplexityReturned(loc[r], req[r].message, llm[r], resp, now))
     ELSE \E resp \in GroundResponses :
            Serve(r, GroundingReturned(loc[r], req[r].message, llm[r], resp, now))
  /\ UNCHANGED <<apiKeys, now, ticks, inbox, req, left>>

AdapterFail(r) ==
  /\ pc[r] \in {"await_perplexity", "await_grounding"}
  /\ Serve(r, AdapterFailed(loc[r], req[r].message, llm[r],
                            IF pc[r] = "await_grounding"
                            THEN "google_search_grounding"
                            ELSE "perplexity_web_search", now))
  /\ UNCHANGED <<apiKeys, now, ticks, inbox, req, left>>

\* ----------------------------------------------------- streaming generator
\* what the next delta of a stream with n deltas to go may carry: no text, or
\* a text that differs from its neighbours'
Deltas(n) == {"", IF n % 2 = 0 THEN "a" ELSE "b"}

\* variant: the text accumulated so far is yielded
yieldAccumulated(accumulatedContent, content) == accumulatedContent

\* line 194: yield chunk.content
yieldContent(accumulatedContent, content) == content

Same(r, ys, e, outcome, next, l) ==
  Out(ys, e, outcome, "", next, l, llm[r], searchCache, pplxCache, groundCache)

\* llm.stream(promptMessages) resolved
StreamOpened(r) ==
  /\ pc[r] = "open"
  /\ Serve(r, Same(r, <<>>, <<>>, "suspend", "stream", loc[r]))
  /\ UNCHANGED <<apiKeys, now, ticks, inbox, req, left>>

\* lines 191-196 and 309-311: one delta of the primary stream
StreamDelta(r) ==
  /\ pc[r] = "stream"
  /\ left[r] > 0
  /\ left' = [left EXCEPT ![r] = @ - 1]
  /\ \E d \in Deltas(left[r]) :
       LET l1 == IF d # ""
                 THEN [loc[r] EXCEPT !.accumulatedContent = @ \o d]
                 ELSE loc[r]
       IN  Serve(r, Same(r, IF d # ""
                            THEN <<ChunkFrame(yieldContent(l1.accumulatedContent, d))>>
                            ELSE <<>>,
                         <<"delta:" \o d>>, "suspend", "stream", l1))
  /\ UNCHANGED <<apiKeys, now, ticks, inbox, req>>

\* the primary stream is exhausted: finally yields end, the handler ends res
StreamEnd(r) ==
  /\ pc[r] = "stream"
  /\ Serve(r, Same(r, <<EndFrame>>, <<>>, "return", "done", loc[r]))
  /\ UNCHANGED <<apiKeys, now, ticks, inbox, req, left>>

\* line 200: the client the apology is streamed through, NoClient if none
FallbackClient(ms, requestProvider) ==
  IF HasModel(ms, "openai", "fast") THEN ModelOf(ms, "openai", "fast")
  ELSE IF HasModel(ms, "google", "fast") THEN ModelOf(ms, "google", "fast")
  ELSE NoClient

\* lines 197-208: llm.stream rejected, or the stream failed between deltas
StreamError(r) ==
  /\ pc[r] \in {"open", "stream"}
  /\ LET fb == FallbackClient(models, req[r].modelProvider)
     IN  IF fb # NoClient
         THEN Serve(r, Same(r, <<>>, <<"fallback.stream">>, "suspend", "fbopen",
                            [loc[r] EXCEPT !.fallback = fb]))
         ELSE Serve(r, Same(r, <<ChunkFrame("Error generating response"), EndFrame>>,
                            <<"synthetic">>, "return", "done", loc[r]))
  /\ UNCHANGED <<apiKeys, now, ticks, inbox, req, left>>

FallbackOpened(r) ==
  /\ pc[r] = "fbopen"
  /\ Serve(r, Same(r, <<>>, <<>>, "suspend", "fbstream", loc[r]))
  /\ UNCHANGED <<apiKeys, now, ticks, inbox, req, left>>

\* lines 202-204: yield chunk.content || ''
FallbackDelta(r) ==
  /\ pc[r] = "fbstream"
  /\ left[r] > 0
  /\ left' = [left EXCEPT ![r] = @ - 1]
  /\ \E d \in Deltas(left[r]) :
       Serve(r, Same(r, <<ChunkFrame(d)>>, <<>>, "suspend", "fbstream", loc[r]))
  /\ UNCHANGED <<apiKeys, now, ticks, inbox, req>>

FallbackEnd(r) ==
  /\ pc[r] = "fbstream"
  /\ Serve(r, Same(r, <<EndFrame>>, <<>>, "return", "done", loc[r]))
  /\ UNCHANGED <<apiKeys, now, ticks, inbox, req, left>>

\* the fallback client's stream call rejects or fails between deltas: nothing
\* in _streamGenerate catches it, processMessage's catch and finally do
FallbackError(r) ==
  /\ pc[r] \in {"fbopen", "fbstream"}
  /\ Serve(r, Same(r, processMessageCatch("fallback stream failed"),
                   <<"fallback.failed">>, "return", "done", loc[r]))
  /\ UNCHANGED <<apiKeys, now, ticks, inbox, req, left>>

\* -------------------------------------------------------------- environment
Suspended == Awaiting \cup {"open", "stream", "fbopen", "fbstream"}

\* the remote peer closes the connection while the request is in progress
PeerClose(r) ==
  /\ pc[r] \in Suspended
  /\ ~sink[r].closed
  /\ sink' = [sink EXCEPT ![r].closed = TRUE]
  /\ UNCHANGED <<apiKeys, now, ticks, searchCache, pplxCache, groundCache, inbox,
                 pc, req, llm, loc, frames, ev, left, at>>

\* the clock advances, by a millisecond or by just under one TTL
Tick ==
  /\ ticks > 0
  /\ \E r \in Requests : pc[r] \notin {"none", "done"}
  /\ \E d \in {1, 5 * 60 * 1000 - 1} : now' = now + d
  /\ ticks' = ticks - 1
  /\ UNCHANGED <<apiKeys, searchCache, pplxCache, groundCache, inbox, pc, req,
                 llm, loc, frames, sink, ev, left, at>>

InitWith(keySets, bodies, arriving, advances, deltas) ==
  /\ apiKeys \in keySets
  /\ now = 0
  /\ ticks = advances
  /\ searchCache = EmptyCache
  /\ pplxCache = EmptyCache
  /\ groundCache = EmptyCache
  /\ \E f \in [arriving -> bodies] :
       inbox = [r \in Requests |-> IF r \in arriving THEN f[r] ELSE NoBody]
  /\ pc = [r \in Requests |-> IF r \in arriving THEN "pending" ELSE "none"]
  /\ req = [r \in Requests |-> NoReq]
  /\ llm = [r \in Requests |-> NoClient]
  /\ loc = [r \in Requests |-> InitLoc]
  /\ left = [r \in Requests |-> deltas]
  /\ frames = [r \in Requests |-> <<>>]
  /\ sink = [r \in Requests |-> [ended |-> FALSE, closed |-> FALSE]]
  /\ ev = [r \in Requests |-> <<>>]
  /\ at = [r \in Requests |-> -1]

\* one request with any body, under any set of credentials
Init == InitWith(SUBSET Credentials, Bodies, {1}, 1, MaxChunks)

\* requests that need search, on every connection, with the search tools present
SearchBodies ==
  [message : {MsgNews, MsgNewsCap}, modelProvider : {"anthropic", "google"},
   modelName : {Undefined}, forceSearch : {FALSE}]

InitCache ==
  InitWith({{"anthropic", "perplexity"}, {"google"}}, SearchBodies, {1, 2}, MaxTicks, 1)

\* every step a request's handler can take
Handle ==
  \/ \E r \in Requests : Receive(r)
  \/ \E r \in Requests : AdapterReturn(r)
  \/ \E r \in Requests : AdapterFail(r)
  \/ \E r \in Requests : StreamOpened(r)
  \/ \E r \in Requests : StreamDelta(r)
  \/ \E r \in Requests : StreamEnd(r)
  \/ \E r \in Requests : StreamError(r)
  \/ \E r \in Requests : FallbackOpened(r)
  \/ \E r \in Requests : FallbackDelta(r)
  \/ \E r \in Requests : FallbackEnd(r)
  \/ \E r \in Requests : FallbackError(r)

Next ==
  \/ Handle
  \/ \E r \in Requests : PeerClose(r)
  \/ Tick

\* the same, with every peer keeping its connection open
NextOpen ==
  \/ Handle
  \/ Tick

Spec == Init /\ [][Next]_vars

SpecCache == InitCache /\ [][NextOpen]_vars

\* two requests for the same words through two providers that share the
\* web-search adapter
SharedAdapterBodies ==
  [message : {MsgNews, MsgNewsCap}, modelProvider : {"openai", "anthropic"},
   modelName : {Undefined}, forceSearch : {FALSE}]

InitAdapter ==
  InitWith({{"openai", "anthropic", "perplexity"}}, SharedAdapterBodies, {1, 2},
           1, 1)

SpecAdapter == InitAdapter /\ [][NextOpen]_vars

\* three requests for one query arriving together on a cold cache
RaceBodies ==
  [message : {MsgNews}, modelProvider : {"anthropic", "google"},
   modelName : {Undefined}, forceSearch : {FALSE, TRUE}]

InitRace ==
  InitWith({{"anthropic", "google", "perplexity"}}, RaceBodies, {1, 2, 3}, 0, 1)

\* the search phase of the requests: their generation calls stay pending
NextSearch ==
  \/ \E r \in Requests : Receive(r)
  \/ \E r \in Requests : AdapterReturn(r)
  \/ \E r \in Requests : AdapterFail(r)

SpecRace == InitRace /\ [][NextSearch]_vars

\* one request, every upstream call eventually returning or failing: the
\* event loop runs the handler of an accepted request, and each await of the
\* request is eventually settled; streams are finite (left)
LiveBodies ==
  [message : {MsgHi, MsgNews}, modelProvider : {"openai", "google", "anthropic"},
   modelName : {Undefined}, forceSearch : BOOLEAN]

InitLive ==
  InitWith({{"openai", "perplexity"}, {"google"}, {"anthropic"}}, LiveBodies, {1},
           1, MaxChunks)

Step(r) ==
  \/ Receive(r)
  \/ AdapterReturn(r)
  \/ AdapterFail(r)
  \/ StreamOpened(r)
  \/ StreamDelta(r)
  \/ StreamEnd(r)
  \/ StreamError(r)
  \/ FallbackOpened(r)
  \/ FallbackDelta(r)
  \/ FallbackEnd(r)
  \/ FallbackError(r)

SpecLive == InitLive /\ [][Next]_vars /\ \A r \in Requests : WF_vars(Step(r))

\* three requests for one query through two providers that share the
\* web-search adapter, over time; the search phase only
StaleBodies ==
  [message : {MsgNews}, modelProvider : {"openai", "anthropic"},
   modelName : {Undefined}, forceSearch : {FALSE}]

InitStale ==
  InitWith({{"openai", "anthropic", "perplexity"}}, StaleBodies, {1, 2, 3},
           MaxTicks, 1)

NextSearchOverTime ==
  \/ NextSearch
  \/ Tick

SpecStale == InitStale /\ [][NextSearchOverTime]_vars


\* ================================================================== claims
CountType(fs, ty) == Cardinality({i \in 1..Len(fs) : fs[i].type = ty})
Types(fs) == [i \in 1..Len(fs) |-> fs[i].type]
Happened(r, e) == \E i \in 1..Len(ev[r]) : ev[r][i] = e
Started(r) == pc[r] \notin {"none", "pending"}

\* the request field is absent or the empty string
MessageMissing(m) == m = Undefined \/ m = Str(<<>>)

\* the provider has a profile: its credential was present at startup
ProviderConfigured(p) == p \in apiKeys \cap LLMProviders

\* C1: for every request whose sink stays open, no frame follows an end frame,
\* and once the request is over exactly one end frame was written, as the last
\* frame, on every path (validation, unresolved provider, exceptions, adapter
\* failure, generation failure with or without fallback).
C1_EndOnceAndLast ==
  \A r \in Requests :
    ~sink[r].closed =>
      /\ \A i \in 1..Len(frames[r]) :
           frames[r][i].type = "end" => i = Len(frames[r])
      /\ pc[r] = "done" =>
           /\ CountType(frames[r], "end") = 1
           /\ frames[r][Len(frames[r])].type = "end"

\* a request, its sink open, that ended after the fallback stream failed
C1_Witness ==
  \E r \in Requests :
    /\ pc[r] = "done"
    /\ ~sink[r].closed
    /\ Types(frames[r]) = <<"metadata", "chunk", "error", "end">>

\* C2: a request whose message is missing (absent or empty) writes exactly
\* [error, end] and makes no call at all: no model resolution, no search
\* decision or dispatch, no generation.
C2_MissingMessage ==
  \A r \in Requests :
    (Started(r) /\ MessageMissing(req[r].message)) =>
      /\ pc[r] = "done"
      /\ frames[r] = <<ErrorFrame("Message is required."), EndFrame>>
      /\ ev[r] = <<>>

\* a finished request whose message was the empty string
C2_Witness ==
  \E r \in Requests :
    /\ pc[r] = "done"
    /\ req[r].message = MsgEmpty
    /\ Types(frames[r]) = <<"error", "end">>

\* C3: handling a request with a non-empty message whose provider has no
\* profile writes exactly [error, end], calls nothing but _getLLM (no adapter,
\* no llm.stream), and leaves the three caches as they were.
C3_UnresolvedProvider ==
  [][\A r \in Requests :
       (/\ pc[r] = "pending"
        /\ pc'[r] # "pending"
        /\ ~MessageMissing(inbox[r].message)
        /\ ~ProviderConfigured(DefaultProvider(inbox[r].modelProvider)))
       =>
       (/\ pc'[r] = "done"
        /\ frames'[r] =
             <<ErrorFrame("Error: Model provider not initialized or model not found. Check API keys."),
               EndFrame>>
        /\ ev'[r] = <<"getLLM">>
        /\ searchCache' = searchCache
        /\ pplxCache' = pplxCache
        /\ groundCache' = groundCache)]_vars

\* a finished request for a known provider whose credential is absent
C3_Witness ==
  \E r \in Requests :
    /\ pc[r] = "done"
    /\ ~MessageMissing(req[r].message)
    /\ req[r].modelProvider \in LLMProviders \ apiKeys
    /\ Types(frames[r]) = <<"error", "end">>

MetadataBeforeChunks(fs) ==
  \A i, j \in 1..Len(fs) :
    (fs[i].type = "chunk" /\ fs[j].type = "metadata") => j < i

FiveMinutes == 5 * 60 * 1000

Dispatched(r) == Happened(r, "searchCache.read") /\ pc[r] \notin Awaiting
CalledAdapter(es) ==
  \E i \in 1..Len(es) :
    es[i] \in {"call:perplexity_web_search", "call:google_search_grounding"}
In(es, e) == \E i \in 1..Len(es) : es[i] = e

\* request r2 is being received and r1 asked for the same query and provider
SecondOf(r1, r2) ==
  /\ r1 # r2
  /\ pc[r2] = "pending"
  /\ pc'[r2] # "pending"
  /\ In(ev'[r2], "searchCache.read")
  /\ req[r1].message = inbox[r2].message
  /\ req[r1].modelProvider = DefaultProvider(inbox[r2].modelProvider)

\* C5 as stated: a dispatch that starts after an earlier dispatch for the same
\* (query, provider) has completed, both within the first five minutes, calls
\* no adapter and returns the earlier dispatch's content and sources.
C5_Original ==
  [][\A r1, r2 \in Requests :
       (SecondOf(r1, r2) /\ Dispatched(r1) /\ now < FiveMinutes)
       =>
       (/\ ~CalledAdapter(ev'[r2])
        /\ loc'[r2].searchContent = loc[r1].searchContent
        /\ loc'[r2].searchSources = loc[r1].searchSources)]_vars

\* C5 (amended): when the earlier dispatch stored its result in the dispatcher
\* cache (a successful adapter call on a miss) less than five minutes before
\* the second starts, the second calls no adapter and returns the content and
\* sources held under the key, which are the first's unless another dispatch
\* for the key stored its own result since.
C5_SecondDispatchHits ==
  [][\A r1, r2 \in Requests :
       (SecondOf(r1, r2) /\ at[r1] >= 0 /\ now - at[r1] < FiveMinutes)
       =>
       (/\ ~CalledAdapter(ev'[r2])
        /\ In(ev'[r2], "searchCache.hit")
        /\ loc'[r2].searchContent = searchCache[loc[r1].cacheKey].data.content
        /\ loc'[r2].searchSources = searchCache[loc[r1].cacheKey].data.sources
        /\ (\A r3 \in Requests \ {r1, r2} :
              ~(at[r3] >= at[r1] /\ loc[r3].cacheKey = loc[r1].cacheKey))
           => (/\ loc'[r2].searchContent = loc[r1].searchContent
               /\ loc'[r2].searchSources = loc[r1].searchSources))]_vars

\* a second dispatch served from the entry the first stored, some time later
C5_Witness ==
  \E r1, r2 \in Requests :
    /\ r1 # r2
    /\ at[r1] >= 0
    /\ now > at[r1]
    /\ now - at[r1] < FiveMinutes
    /\ req[r1] = req[r2]
    /\ Happened(r2, "searchCache.hit")
    /\ ~CalledAdapter(ev[r2])
    /\ loc[r2].searchContent = loc[r1].searchContent
    /\ loc[r2].searchSources = loc[r1].searchSources

\* C6: a lookup of an entry at least five minutes old is a miss at every cache
\* level: the dispatcher then calls the adapter instead of returning the entry,
\* and each adapter then calls its backend instead of returning its entry.
C6_ExpiredIsMiss ==
  [][\A r \in Requests :
       (pc[r] = "pending" /\ pc'[r] # "pending" /\ In(ev'[r], "searchCache.read"))
       =>
       LET q == toLowerCase(inbox[r].message.s)
           key == q \o <<"-">> \o ProviderChars(DefaultProvider(inbox[r].modelProvider))
           gkey == <<"g","r","o","u","n","d","e","d","_">> \o q
           Old(cache, k) == k \in DOMAIN cache /\ now - cache[k].timestamp >= FiveMinutes
       IN  /\ Old(searchCache, key) =>
                (~In(ev'[r], "searchCache.hit") /\ CalledAdapter(ev'[r]))
           /\ (In(ev'[r], "call:perplexity_web_search") /\ Old(pplxCache, q)) =>
                (In(ev'[r], "upstream:perplexity_web_search")
                 /\ pc'[r] = "await_perplexity")
           /\ (In(ev'[r], "call:google_search_grounding") /\ Old(groundCache, gkey)) =>
                (In(ev'[r], "upstream:google_search_grounding")
                 /\ pc'[r] = "await_grounding")]_vars

\* a dispatch that found the dispatcher entry and the adapter's entry expired
\* and went to the backend
C6_Witness ==
  \E r \in Requests :
    /\ Happened(r, "searchCache.stale")
    /\ Happened(r, "upstream:google_search_grounding")
         \/ Happened(r, "upstream:perplexity_web_search")

\* C7: after an adapter call failed, the first frame is the metadata frame
\* {usedSearch: true, searchTool: <adapter>_failed, searchSources: [],
\* isSearchSuccessful: false}, generation was started with the direct prompt,
\* an error frame can only come from a failed fallback stream, and the request
\* ends with end.
C7_AdapterFailureDegrades ==
  \A r \in Requests :
    Happened(r, "adapter.failed") =>
      /\ Len(frames[r]) >= 1
      /\ frames[r][1] =
           [type |-> "metadata",
            data |-> [usedSearch |-> TRUE,
                      searchTool |-> IF Happened(r, "call:google_search_grounding")
                                     THEN "google_search_grounding_failed"
                                     ELSE "perplexity_web_search_failed",
                      searchSources |-> <<>>,
                      isSearchSuccessful |-> FALSE]]
      /\ Happened(r, "llm.stream")
      /\ loc[r].messagesForLLM = <<DirectSystem, Human(req[r].message)>>
      /\ CountType(frames[r], "error") > 0 => Happened(r, "fallback.failed")
      /\ pc[r] = "done" => frames[r][Len(frames[r])].type = "end"

\* a finished request whose adapter call failed: metadata, a chunk, end
C7_Witness ==
  \E r \in Requests :
    /\ pc[r] = "done"
    /\ Happened(r, "adapter.failed")
    /\ Types(frames[r]) = <<"metadata", "chunk", "end">>

GenerationFailed(r) == Happened(r, "fallback.stream") \/ Happened(r, "synthetic")

\* C8 as stated: after a primary generation failure the apology goes through
\* the request's own provider's fast client if configured, else through
\* another configured fast client; the synthetic chunk only if there is none.
C8_Original ==
  \A r \in Requests :
    GenerationFailed(r) =>
      IF HasModel(models, req[r].modelProvider, "fast")
      THEN /\ ~Happened(r, "synthetic")
           /\ loc[r].fallback = ModelOf(models, req[r].modelProvider, "fast")
      ELSE IF \E c \in models : c.tier = "fast"
      THEN /\ ~Happened(r, "synthetic")
           /\ loc[r].fallback \in models
           /\ loc[r].fallback.tier = "fast"
      ELSE Happened(r, "synthetic")

\* C9 as stated: after a primary generation failure no error frame is ever
\* written, whatever the fallback client does.
C9_Original ==
  \A r \in Requests :
    GenerationFailed(r) => CountType(frames[r], "error") = 0

\* C10 as stated: once the peer has closed the sink, no chunk frame and no end
\* frame is written to it.
C10_Original ==
  \A r \in Requests :
    ~Happened(r, "late:chunk") /\ ~Happened(r, "late:end")


Upstream(r) ==
  \/ Happened(r, "upstream:perplexity_web_search")
  \/ Happened(r, "upstream:google_search_grounding")

\* the requests that went to the backend for the dispatcher key of request r
UpstreamCallers(r) ==
  {r2 \in Requests : Upstream(r2) /\ loc[r2].cacheKey = loc[r].cacheKey}

\* C11 as stated: on a cold cache, concurrent requests for one (query,
\* provider) make at most two upstream calls for the key, and every dispatcher
\* cache entry is the complete result of one request.
C11_Original ==
  /\ \A r \in Requests : Cardinality(UpstreamCallers(r)) <= 2
  /\ \A k \in DOMAIN searchCache :
       \E r \in Requests :
         /\ loc[r].cacheKey = k
         /\ searchCache[k].data = [content |-> loc[r].searchContent,
                                   sources |-> loc[r].searchSources,
                                   toolUsed |-> loc[r].searchToolUsed]


\* an adapter the dispatcher can use for the provider (lines 240 and 257)
AdapterAvailable(p) ==
  \/ p = "google" /\ "google" \in apiKeys
  \/ "perplexity" \in apiKeys

Forced(r) ==
  /\ pc[r] \notin {"none", "pending"}
  /\ req[r].forceSearch
  /\ llm[r] # NoClient
  /\ AdapterAvailable(req[r].modelProvider)

SearchedAndReported(r) ==
  /\ Happened(r, "searchCache.read")
  /\ Happened(r, "searchCache.hit") \/ CalledAdapter(ev[r])
  /\ pc[r] \notin Awaiting =>
       /\ Len(frames[r]) >= 1
       /\ frames[r][1].type = "metadata"
       /\ frames[r][1].data.usedSearch

\* C12 as stated: with forceSearch, a resolved provider and an adapter for it,
\* the request performs search dispatch and reports usedSearch=true, whatever
\* the message.
C12_Original ==
  \A r \in Requests : Forced(r) => SearchedAndReported(r)

\* C12 (amended): with forceSearch, a resolved provider and an adapter for it,
\* every request whose message is text looks up the dispatcher cache, calls the
\* adapter on a miss and reports usedSearch=true, also when shouldSearchWeb is
\* false for the message; a message that is not text gets error and end.
C12_ForceSearchDispatches ==
  \A r \in Requests :
    Forced(r) =>
      IF IsString(req[r].message)
      THEN SearchedAndReported(r)
      ELSE /\ Types(frames[r]) = <<"error", "end">>
           /\ ~Happened(r, "searchCache.read")

\* a forced request for "hi", which the rules alone would not search
C12_Witness ==
  \E r \in Requests :
    /\ Forced(r)
    /\ pc[r] = "done"
    /\ req[r].message = MsgHi
    /\ ~shouldSearchWeb(MsgHi.s)
    /\ CalledAdapter(ev[r])
    /\ frames[r][1].type = "metadata"
    /\ frames[r][1].data.usedSearch
    /\ frames[r][1].data.isSearchSuccessful


\* a request of provider google that missed the dispatcher cache
GoogleMiss(r) ==
  /\ req[r].modelProvider = "google"
  /\ "google" \in apiKeys
  /\ Happened(r, "searchCache.read")
  /\ ~Happened(r, "searchCache.hit")

\* C13: for provider google with the grounding adapter configured, a
\* dispatcher-cache miss calls the grounding adapter and never the web-search
\* adapter, whether or not the web-search adapter is configured, and the
\* reported searchTool is google_search_grounding or
\* google_search_grounding_failed.
C13_GoogleUsesGrounding ==
  \A r \in Requests :
    GoogleMiss(r) =>
      /\ Happened(r, "call:google_search_grounding")
      /\ ~Happened(r, "call:perplexity_web_search")
      /\ ~Happened(r, "upstream:perplexity_web_search")
      /\ pplxCache = EmptyCache
      /\ pc[r] \notin Awaiting =>
           /\ loc[r].searchToolUsed \in
                {"google_search_grounding", "google_search_grounding_failed"}
           /\ frames[r][1].type = "metadata"
           /\ frames[r][1].data.searchTool = loc[r].searchToolUsed

\* a finished google request that used grounding although the web-search
\* adapter is configured too
C13_Witness ==
  \E r \in Requests :
    /\ GoogleMiss(r)
    /\ "perplexity" \in apiKeys
    /\ pc[r] = "done"
    /\ frames[r][1].type = "metadata"
    /\ frames[r][1].data.searchTool = "google_search_grounding"
    /\ groundCache # EmptyCache


\* a request with a resolved provider that neither forces search nor matches
\* a search rule
NoSearchWanted(r) ==
  /\ Started(r)
  /\ llm[r] # NoClient
  /\ ~req[r].forceSearch
  /\ IsString(req[r].message)
  /\ ~shouldSearchWeb(req[r].message.s)

\* C14: a request with a resolved provider, forceSearch=false and
\* shouldSearchWeb(message) false writes the metadata frame {usedSearch: false,
\* searchTool: "none", searchSources: [], isSearchSuccessful: false}, calls no
\* adapter, neither looks up nor changes any cache, and generates from the
\* direct prompt.
C14_NoSearchPath ==
  \A r \in Requests :
    NoSearchWanted(r) =>
      /\ Len(frames[r]) >= 1
      /\ frames[r][1] =
           [type |-> "metadata",
            data |-> [usedSearch |-> FALSE, searchTool |-> "none",
                      searchSources |-> <<>>, isSearchSuccessful |-> FALSE]]
      /\ ~CalledAdapter(ev[r])
      /\ ~Upstream(r)
      /\ ~Happened(r, "searchCache.read")
      /\ ~Happened(r, "searchCache.write")
      /\ searchCache = EmptyCache
      /\ pplxCache = EmptyCache
      /\ groundCache = EmptyCache
      /\ Happened(r, "llm.stream")
      /\ loc[r].messagesForLLM = <<DirectSystem, Human(req[r].message)>>

\* the scenario {message: "hi"} with the search tools configured: metadata,
\* a chunk, end
C14_Witness ==
  \E r \in Requests :
    /\ NoSearchWanted(r)
    /\ pc[r] = "done"
    /\ req[r].message = MsgHi
    /\ {"perplexity", "google"} \subseteq apiKeys
    /\ Types(frames[r]) = <<"metadata", "chunk", "end">>
    /\ ~frames[r][1].data.usedSearch


\* a request that needs search while no adapter serves its provider
NoAdapterForSearch(r) ==
  /\ Started(r)
  /\ llm[r] # NoClient
  /\ IsString(req[r].message)
  /\ req[r].forceSearch \/ shouldSearchWeb(req[r].message.s)
  /\ ~Happened(r, "searchCache.hit")
  /\ "perplexity" \notin apiKeys
  /\ ~(req[r].modelProvider = "google" /\ "google" \in apiKeys)

\* C15: when search is needed, the dispatcher cache misses and no adapter is
\* available, nothing is raised: the metadata frame reports usedSearch=false
\* and isSearchSuccessful=false, no adapter is called, nothing is cached,
\* generation starts from the direct prompt, and an error frame can only come
\* from a failed fallback stream.
C15_NoAdapterAvailable ==
  \A r \in Requests :
    NoAdapterForSearch(r) =>
      /\ Happened(r, "searchCache.read")
      /\ ~CalledAdapter(ev[r])
      /\ ~Upstream(r)
      /\ Len(frames[r]) >= 1
      /\ frames[r][1] =
           [type |-> "metadata",
            data |-> [usedSearch |-> FALSE, searchTool |-> "none",
                      searchSources |-> <<>>, isSearchSuccessful |-> FALSE]]
      /\ ~loc[r].needsSearch
      /\ searchCache = EmptyCache
      /\ pplxCache = EmptyCache
      /\ groundCache = EmptyCache
      /\ Happened(r, "llm.stream")
      /\ loc[r].messagesForLLM = <<DirectSystem, Human(req[r].message)>>
      /\ CountType(frames[r], "error") > 0 => Happened(r, "fallback.failed")

\* a finished request for news with only the anthropic credential: metadata,
\* a chunk, end
C15_Witness ==
  \E r \in Requests :
    /\ NoAdapterForSearch(r)
    /\ pc[r] = "done"
    /\ req[r].message = MsgNews
    /\ ~req[r].forceSearch
    /\ loc[r].searchContent = "(No search tool available for your request.)"
    /\ Types(frames[r]) = <<"metadata", "chunk", "end">>


\* C16: a request needing search whose key lower(query) + "-" + provider has an
\* unexpired dispatcher entry, whatever the letter case of its query, calls no
\* adapter, leaves the adapters' caches alone, and reports usedSearch=true,
\* isSearchSuccessful=true with the entry's searchTool and searchSources.
C16_DispatcherHit ==
  [][\A r \in Requests :
       LET b == inbox[r]
           p == DefaultProvider(b.modelProvider)
           key == IF IsString(b.message)
                  THEN toLowerCase(b.message.s) \o <<"-">> \o ProviderChars(p)
                  ELSE <<>>
       IN  (/\ pc[r] = "pending"
            /\ pc'[r] # "pending"
            /\ IsString(b.message)
            /\ b.forceSearch \/ shouldSearchWeb(b.message.s)
            /\ key \in DOMAIN searchCache
            /\ now - searchCache[key].timestamp < FiveMinutes)
           =>
           (/\ In(ev'[r], "searchCache.hit")
            /\ ~CalledAdapter(ev'[r])
            /\ ~In(ev'[r], "upstream:perplexity_web_search")
            /\ ~In(ev'[r], "upstream:google_search_grounding")
            /\ pplxCache' = pplxCache
            /\ groundCache' = groundCache
            /\ searchCache' = searchCache
            /\ frames'[r][1] =
                 [type |-> "metadata",
                  data |-> [usedSearch |-> TRUE,
                            searchTool |-> searchCache[key].data.toolUsed,
                            searchSources |-> searchCache[key].data.sources,
                            isSearchSuccessful |-> TRUE]])]_vars

\* "News" served from the entry stored for "news", with its sources
C16_Witness ==
  \E r1, r2 \in Requests :
    /\ req[r1].message = MsgNews
    /\ at[r1] >= 0
    /\ req[r2].message = MsgNewsCap
    /\ Happened(r2, "searchCache.hit")
    /\ ~CalledAdapter(ev[r2])
    /\ frames[r2][1].type = "metadata"
    /\ frames[r2][1].data.usedSearch
    /\ frames[r2][1].data.searchTool = loc[r1].searchToolUsed
    /\ frames[r2][1].data.searchSources = loc[r1].searchSources
    /\ loc[r1].searchSources # <<>>


\* request r2 is being received, needs search through the web-search adapter,
\* and asks for the words of r1 through another provider
OtherProviderOf(r1, r2) ==
  /\ r1 # r2
  /\ pc[r2] = "pending"
  /\ pc'[r2] # "pending"
  /\ IsString(inbox[r2].message)
  /\ inbox[r2].forceSearch \/ shouldSearchWeb(inbox[r2].message.s)
  /\ DefaultProvider(inbox[r2].modelProvider) \in apiKeys \cap LLMProviders
  /\ DefaultProvider(inbox[r2].modelProvider) # "google"
  /\ "perplexity" \in apiKeys
  /\ IsString(req[r1].message)
  /\ toLowerCase(req[r1].message.s) = toLowerCase(inbox[r2].message.s)
  /\ req[r1].modelProvider # DefaultProvider(inbox[r2].modelProvider)

AdapterFailureStep(r) ==
  ~In(ev[r], "adapter.failed") /\ In(ev'[r], "adapter.failed")

\* the step in which request r finds that no adapter serves its provider
NoAdapterStep(r) ==
  /\ pc[r] = "pending"
  /\ In(ev'[r], "searchCache.read")
  /\ ~In(ev'[r], "searchCache.hit")
  /\ ~CalledAdapter(ev'[r])

\* C18: every dispatcher entry was written by a request whose adapter call
\* had returned successfully and names perplexity_web_search or
\* google_search_grounding as its tool; a failed adapter call and an
\* unavailable adapter leave the dispatcher cache and both adapter caches as
\* they were.
C18_WritesOnlyAfterSuccess ==
  [][/\ \A k \in DOMAIN searchCache' :
          /\ searchCache'[k].data.toolUsed \in
               {"perplexity_web_search", "google_search_grounding"}
          /\ \E r \in Requests :
               /\ loc'[r].cacheKey = k
               /\ CalledAdapter(ev'[r])
               /\ ~In(ev'[r], "adapter.failed")
               /\ loc'[r].isSearchSuccessful
               /\ at'[r] = searchCache'[k].timestamp
               /\ searchCache'[k].data.content = loc'[r].searchContent
     /\ \A r \in Requests :
          (AdapterFailureStep(r) \/ NoAdapterStep(r)) =>
            /\ searchCache' = searchCache
            /\ pplxCache' = pplxCache
            /\ groundCache' = groundCache]_vars

\* a finished request whose adapter call failed, with nothing in any cache
C18_Witness ==
  \E r \in Requests :
    /\ pc[r] = "done"
    /\ Happened(r, "adapter.failed")
    /\ Happened(r, "upstream:perplexity_web_search")
    /\ searchCache = EmptyCache
    /\ pplxCache = EmptyCache
    /\ groundCache = EmptyCache


CountEv(es, E) == Cardinality({i \in 1..Len(es) : es[i] \in E})

AdapterCalls == {"call:perplexity_web_search", "call:google_search_grounding"}
UpstreamCalls == {"upstream:perplexity_web_search", "upstream:google_search_grounding"}

\* no event of E follows an event of F in es
NoneAfter(es, E, F) ==
  \A i, j \in 1..Len(es) : (es[i] \in F /\ es[j] \in E) => j < i

\* C19: within a request nothing is retried: at most one adapter call, at most
\* one upstream call, the primary generation call opened at most once, the
\* fallback opened at most once, no adapter call after an adapter failure and
\* no primary generation call after a generation failure.
C19_NoRetry ==
  \A r \in Requests :
    /\ CountEv(ev[r], AdapterCalls) <= 1
    /\ CountEv(ev[r], UpstreamCalls) <= 1
    /\ CountEv(ev[r], {"llm.stream"}) <= 1
    /\ CountEv(ev[r], {"fallback.stream", "synthetic"}) <= 1
    /\ CountEv(ev[r], {"adapter.failed"}) <= 1
    /\ NoneAfter(ev[r], AdapterCalls \cup UpstreamCalls, {"adapter.failed"})
    /\ NoneAfter(ev[r], {"llm.stream"}, {"fallback.stream", "synthetic", "fallback.failed"})

\* a finished request whose adapter call failed and whose primary generation
\* failed: one adapter call, one primary call, then the fallback
C19_Witness ==
  \E r \in Requests :
    /\ pc[r] = "done"
    /\ Happened(r, "adapter.failed")
    /\ Happened(r, "fallback.stream")
    /\ CountEv(ev[r], AdapterCalls) = 1
    /\ CountEv(ev[r], {"llm.stream"}) = 1
    /\ Types(frames[r]) = <<"metadata", "chunk", "end">>


\* the model identifiers _getLLM treats as a provider's defaults
DefaultIdentifiers(p) ==
  IF p = "openai" THEN {GPT4Turbo, GPT35Turbo}
  ELSE IF p = "google" THEN {Gemini25Pro}
  ELSE IF p = "anthropic" THEN {Claude3Sonnet, Claude3Haiku}
  ELSE {}

\* what the claim says _getLLM returns for a text modelName m of a configured
\* provider p
ResolvedAsClaimed(c, p, m) ==
  IF includes(m, <<"f","a","s","t">>)
  THEN c \in models /\ c.provider = p /\ c.tier = "fast"
  ELSE IF m \in DefaultIdentifiers(p)
  THEN c \in models /\ c.provider = p /\ c.tier = "capable"
  ELSE c \notin models /\ c.provider = p /\ c.model = m

NullFrames ==
  <<[type |-> "error",
     data |-> "Error: Model provider not initialized or model not found. Check API keys."],
    [type |-> "end"]>>

\* request r is received with a message, so that _getLLM is called
Resolving(r) ==
  /\ pc[r] = "pending"
  /\ pc'[r] # "pending"
  /\ ~MessageMissing(inbox[r].message)

C21_PromptMatchesMetadata ==
  \A r \in Requests :
    Happened(r, "llm.stream") =>
      LET md == frames[r][1]
          msgs == loc[r].messagesForLLM
      IN  /\ md.type = "metadata"
          /\ Len(msgs) = 2
          /\ msgs[2] = [role |-> "human", content |-> req[r].message]
          /\ IF md.data.usedSearch /\ md.data.isSearchSuccessful
             THEN /\ msgs[1] = [role |-> "system", template |-> "RAG",
                                context |-> loc[r].searchContent]
                  /\ loc[r].searchContent \in {"P1", "P2", "G1", "G2"}
             ELSE msgs[1] = [role |-> "system", template |-> "direct", context |-> ""]

\* a finished request answered from the augmented prompt around the backend's
\* content
C21_Witness ==
  \E r \in Requests :
    /\ pc[r] = "done"
    /\ frames[r][1].type = "metadata"
    /\ frames[r][1].data.usedSearch
    /\ frames[r][1].data.isSearchSuccessful
    /\ loc[r].messagesForLLM =
         <<[role |-> "system", template |-> "RAG", context |-> "P1"],
           [role |-> "human", content |-> MsgNews]>>
    /\ CountType(frames[r], "chunk") > 0


DeltaEvents == {"delta:", "delta:a", "delta:b"}
DeltaOf(e) == IF e = "delta:a" THEN "a" ELSE IF e = "delta:b" THEN "b" ELSE ""

\* the text deltas request r has received from its primary stream, in order
Received(r) ==
  LET es == SelectSeq(ev[r], LAMBDA e : e \in DeltaEvents)
  IN  [i \in 1..Len(es) |-> DeltaOf(es[i])]

\* the data of the chunk frames of request r, in order
Chunks(r) ==
  LET cs == SelectSeq(frames[r], LAMBDA f : f.type = "chunk")
  IN  [i \in 1..Len(cs) |-> cs[i].data]

\* C22: as long as the primary generation call has not failed, the chunk
\* frames of a request carry exactly the non-empty deltas received from the
\* stream, one frame per delta, in the order received; a frame carries its
\* delta, not the accumulated text, and an empty delta gives no frame.
C22_ChunksAreDeltas ==
  \A r \in Requests :
    ~GenerationFailed(r) =>
      Chunks(r) = SelectSeq(Received(r), LAMBDA d : d # "")

\* a finished request that received "a" then "b": two chunk frames, the second
\* carrying "b" alone
C22_Witness ==
  \E r \in Requests :
    /\ pc[r] = "done"
    /\ ~GenerationFailed(r)
    /\ Received(r) = <<"a", "b">>
    /\ Chunks(r) = <<"a", "b">>
    /\ loc[r].accumulatedContent = "ab"


\* C23 as stated: the search content a request is served from a cache was
\* delivered by the backend less than five minutes before the request's
\* dispatch.
C23_Original ==
  [][\A r \in Requests :
       (pc[r] = "pending" /\ loc'[r].isSearchSuccessful) =>
         now - loc'[r].obtainedAt < FiveMinutes]_vars


AdapterIds == {"perplexity_web_search", "google_search_grounding"}
FailedIds == {"perplexity_web_search_failed", "google_search_grounding_failed"}

ConsistentMetadata(d) ==
  /\ d.searchTool \in AdapterIds \cup FailedIds \cup {"none"}
  /\ d.isSearchSuccessful => (d.usedSearch /\ d.searchTool \in AdapterIds)
  /\ d.searchTool = "none" <=> ~d.usedSearch
  /\ d.searchTool \in FailedIds <=> (d.usedSearch /\ ~d.isSearchSuccessful)
  /\ d.searchSources # <<>> => d.isSearchSuccessful

\* C24: in every metadata frame, isSearchSuccessful implies usedSearch and an
\* adapter identifier as searchTool; searchTool is "none" exactly when
\* usedSearch is false; searchTool ends in "_failed" exactly when usedSearch
\* is true and isSearchSuccessful is false; searchSources is non-empty only
\* when isSearchSuccessful is true.
C24_MetadataConsistent ==
  \A r \in Requests :
    \A i \in 1..Len(frames[r]) :
      frames[r][i].type = "metadata" => ConsistentMetadata(frames[r][i].data)

\* a finished request whose metadata frame reports a failed web search
C24_Witness ==
  \E r \in Requests :
    /\ pc[r] = "done"
    /\ frames[r][1] =
         [type |-> "metadata",
          data |-> [usedSearch |-> TRUE,
                    searchTool |-> "perplexity_web_search_failed",
                    searchSources |-> <<>>, isSearchSuccessful |-> FALSE]]


\* C25: a request writes at most one error frame, and the frame written right
\* after an error frame is end: no metadata or chunk frame follows an error.
C25_ErrorThenEnd ==
  \A r \in Requests :
    /\ CountType(frames[r], "error") <= 1
    /\ \A i \in 1..Len(frames[r]) :
         frames[r][i].type = "error" =>
           /\ i + 1 = Len(frames[r])
           /\ frames[r][i + 1].type = "end"

\* the agent's catch-all after the metadata frame: the fallback stream failed
\* before it delivered anything
C25_Witness ==
  \E r \in Requests :
    /\ pc[r] = "done"
    /\ Happened(r, "fallback.failed")
    /\ Types(frames[r]) = <<"metadata", "error", "end">>


\* C26: when every adapter call and every step of an LLM stream eventually
\* returns or fails and streams are finite, every accepted request eventually
\* reaches its terminal state, with the sink ended.
C26_Terminates ==
  \A r \in Requests :
    (pc[r] = "pending") ~> (pc[r] = "done" /\ sink[r].ended)

\* a request that went to the backend, streamed deltas and finished after its
\* peer had gone
C26_Witness ==
  \E r \in Requests :
    /\ pc[r] = "done"
    /\ sink[r].ended
    /\ sink[r].closed
    /\ Happened(r, "upstream:perplexity_web_search")
    /\ Received(r) # <<>>
    /\ frames[r][Len(frames[r])].type = "end"

====
